---- MODULE Spec2Model ----
(***************************************************************************)
(* Model of pallet-trustless-file-server: the chunked Merkle tree engine   *)
(* (src/src/file_merkle_tree.rs) and the pallet calls built on it          *)
(* (src/src/lib.rs).                                                       *)
(*                                                                         *)
(* Representation of byte strings.                                         *)
(*  - File contents and chunks are run-length encoded: a sequence of runs  *)
(*    <<byte, count>>, normalised (no empty run, no two adjacent runs of   *)
(*    the same byte), so two equal byte strings have one representation.   *)
(*  - Buffers made of hashes and integers (the tree buffer, the persisted  *)
(*    record) are sequences of 4-byte words.  A word is either             *)
(*    <<"u32", n>>, the little-endian bytes of n, or <<"sha256", x, k>>,   *)
(*    the k-th word of the SHA-256 digest of the byte string x.            *)
(*  - SHA-256 is an injective symbolic function of its input.              *)
(***************************************************************************)
EXTENDS Integers, Sequences, FiniteSets, TLC

\* ------------------------------------------------------------------ bounds
\* Files of 0..MaxChunks full chunks, plus a remainder, are built.
MaxChunks == 2
\* Positions 0..MaxPosition are queried (plus a few fixed large ones).
MaxPosition == 3
\* Number of upload_file calls in a run of the pallet.
MaxUploads == 2
\* Last block of a run of the pallet.
MaxBlock == 2
\* Malformed records keep the first 0..MaxCut words of a stored record.
MaxCut == 9

\* ------------------------------------------------------ program constants
DEFAULT_CHUNK_SIZE == 1024
HASH_SIZE == 32
MAX_MERKLE_TREE_NODES == 64
MAX_MERKLE_TREE_SIZE == MAX_MERKLE_TREE_NODES * HASH_SIZE
\* the divisor of calculate_chunk_size
TARGET_PIECES == 64
\* size of the read buffer of decode, the unit of the word buffers
WORD_SIZE == 4
HASH_WORDS == HASH_SIZE \div WORD_SIZE

Min(a, b) == IF a < b THEN a ELSE b

\* ---------------------------------------------------------- byte strings
RECURSIVE BytesLen(_)
BytesLen(runs) ==
    IF runs = <<>> THEN 0 ELSE runs[1][2] + BytesLen(Tail(runs))

RECURSIVE Drop(_, _)
Drop(runs, n) ==
    IF n = 0 \/ runs = <<>> THEN runs
    ELSE IF runs[1][2] <= n THEN Drop(Tail(runs), n - runs[1][2])
    ELSE <<(<<runs[1][1], runs[1][2] - n>>)>> \o Tail(runs)

RECURSIVE Take(_, _)
Take(runs, n) ==
    IF n = 0 \/ runs = <<>> THEN <<>>
    ELSE IF runs[1][2] <= n THEN <<runs[1]>> \o Take(Tail(runs), n - runs[1][2])
    ELSE <<(<<runs[1][1], n>>)>>

\* &bytes[from .. from + n]
SubRuns(runs, from, n) == Take(Drop(runs, from), n)

\* slice::chunks(chunk_size): consecutive slices of chunk_size bytes, the
\* last one shorter when the length is not a multiple of chunk_size.
Chunks(runs, chunk_size) ==
    LET len == BytesLen(runs)
        count == (len + chunk_size - 1) \div chunk_size
    IN  [i \in 1..count |->
            SubRuns(runs, (i - 1) * chunk_size,
                    Min(chunk_size, len - (i - 1) * chunk_size))]

\* vec![0u8; chunk_size] with the chunk copied over its first bytes
ZeroPad(chunk, chunk_size) ==
    LET n == Len(chunk)
        missing == chunk_size - BytesLen(chunk)
    IN  IF missing = 0 THEN chunk
        ELSE IF n > 0 /\ chunk[n][1] = 0
             THEN [chunk EXCEPT ![n] = <<0, chunk[n][2] + missing>>]
             ELSE chunk \o <<(<<0, missing>>)>>

\* ---------------------------------------------------------------- hashing
U32(n) == <<"u32", n>>

\* A buffer of words seen as a hash input: a whole digest collapses to its
\* preimage, a buffer of zero bytes to a run of zeros.
PackWords(ws) ==
    LET n == Len(ws)
        groups == n \div HASH_WORDS
        Group(g) == SubSeq(ws, (g - 1) * HASH_WORDS + 1, g * HASH_WORDS)
        IsDigest(grp) ==
            /\ grp[1][1] = "sha256"
            /\ \A k \in 1..HASH_WORDS : grp[k] = <<"sha256", grp[1][2], k - 1>>
    IN  IF \A i \in 1..n : ws[i] = U32(0)
        THEN <<"runs", IF n = 0 THEN <<>> ELSE <<(<<0, n * WORD_SIZE>>)>> >>
        ELSE IF n % HASH_WORDS # 0 THEN <<"words", ws>>
        ELSE <<"words", [g \in 1..groups |->
                    IF IsDigest(Group(g)) THEN <<"digest", Group(g)[1][2]>>
                    ELSE <<"raw", Group(g)>>]>>

\* sp_io::hashing::sha2_256 over file bytes
sha2_256(runs) == [k \in 1..HASH_WORDS |-> <<"sha256", <<"runs", runs>>, k - 1>>]

\* sp_io::hashing::sha2_256 over a buffer of words
sha2_256_words(ws) == [k \in 1..HASH_WORDS |-> <<"sha256", PackWords(ws), k - 1>>]

CHUNK_FILLER == [k \in 1..HASH_WORDS |-> U32(0)]

\* ---------------------------------------------------------- ChunkPlanner
calculate_chunk_size(file_size) ==
    LET chunk_size == file_size \div TARGET_PIECES
    IN  IF chunk_size < DEFAULT_CHUNK_SIZE THEN DEFAULT_CHUNK_SIZE ELSE chunk_size

calculate_has_boundary(file_size) ==
    file_size % calculate_chunk_size(file_size) # 0

\* pieces is at most TARGET_PIECES + 1, so the cast to u32 keeps its value
calculate_pieces(file_size) ==
    LET chunk_size == calculate_chunk_size(file_size)
        pieces == file_size \div chunk_size
    IN  IF calculate_has_boundary(file_size) THEN pieces + 1 ELSE pieces

RECURSIVE next_power_of_two(_)
next_power_of_two(n) ==
    IF n <= 1 THEN 1 ELSE 2 * next_power_of_two((n + 1) \div 2)

\* ----------------------------------------------------------- TreeBuilder
None == [kind |-> "None"]
Some(x) == [kind |-> "Some", value |-> x]
Ok(x) == [kind |-> "Ok", value |-> x]
Err == [kind |-> "Err"]
Panic == [kind |-> "panic"]

\* &buf[from .. to], offsets in bytes (multiples of WORD_SIZE)
ByteSlice(buf, from, to) ==
    SubSeq(buf, from \div WORD_SIZE + 1, to \div WORD_SIZE)

ByteLen(buf) == Len(buf) * WORD_SIZE

RECURSIVE Flatten(_)
Flatten(seqs) ==
    IF seqs = <<>> THEN <<>> ELSE seqs[1] \o Flatten(Tail(seqs))

\* mutant: the pair is hashed right then left
RECURSIVE CombineLevels_swapped(_, _, _)
CombineLevels_swapped(tree, pos, num_items) ==
    IF num_items > 1
    THEN LET parents == [j \in 1..(num_items \div 2) |->
                 LET i == pos + 2 * (j - 1)
                     slice1 == ByteSlice(tree, i * HASH_SIZE, (i + 1) * HASH_SIZE)
                     slice2 == ByteSlice(tree, (i + 1) * HASH_SIZE, (i + 2) * HASH_SIZE)
                 IN  sha2_256_words(slice2 \o slice1)]
         IN  CombineLevels_swapped(tree \o Flatten(parents), pos + num_items,
                                   num_items \div 2)
    ELSE tree

\* the while loop of new: one pass per level, appending the parents
RECURSIVE CombineLevels(_, _, _)
CombineLevels(tree, pos, num_items) ==
    IF num_items > 1
    THEN LET parents == [j \in 1..(num_items \div 2) |->
                 LET i == pos + 2 * (j - 1)
                     slice1 == ByteSlice(tree, i * HASH_SIZE, (i + 1) * HASH_SIZE)
                     slice2 == ByteSlice(tree, (i + 1) * HASH_SIZE, (i + 2) * HASH_SIZE)
                 IN  sha2_256_words(slice1 \o slice2)]
         IN  CombineLevels(tree \o Flatten(parents), pos + num_items,
                           num_items \div 2)
    ELSE tree

\* FileMerkleTree::new.  kind = "panic" when the tree does not fit the
\* bounded buffer (try_into().unwrap()); hashed counts the sha2_256 calls
\* made before returning or panicking.
new(bytes) ==
    LET file_len == BytesLen(bytes)
        cs == calculate_chunk_size(file_len)
        chunks == Chunks(bytes, cs)
        n == Len(chunks)
        short == {i \in 1..n : BytesLen(chunks[i]) # cs}
        boundary_hash ==
            IF short = {} THEN None
            ELSE Some(sha2_256(chunks[CHOOSE i \in short : \A j \in short : j <= i]))
        leaves == [i \in 1..n |->
                      IF BytesLen(chunks[i]) # cs
                      THEN sha2_256(ZeroPad(chunks[i], cs))
                      ELSE sha2_256(chunks[i])]
        num_items == next_power_of_two(n)
        filler == [i \in 1..(num_items - n) |-> CHUNK_FILLER]
        tree == CombineLevels(Flatten(leaves) \o Flatten(filler), 0, num_items)
        hashed == n + Cardinality(short) + (num_items - 1)
    IN  IF ByteLen(tree) > MAX_MERKLE_TREE_SIZE
        THEN [kind |-> "panic", hashed |-> hashed]
        ELSE [kind |-> "Ok", hashed |-> hashed,
              value |-> [file_size |-> file_len,
                         merkle_tree |-> tree,
                         boundary_hash |-> boundary_hash]]

chunk_size(t) == calculate_chunk_size(t.file_size)

pieces(t) == calculate_pieces(t.file_size)

\* ------------------------------------------------------- ProofGenerator
\* mutant: the boundary hash is never returned
file_chunk_hash_at_leaf_only(t, position) ==
    LET n == pieces(t)
        pos == position * HASH_SIZE
        limit == pos + HASH_SIZE
    IN  IF position >= n THEN [ret |-> None, reads |-> 0]
        ELSE IF limit > ByteLen(t.merkle_tree) THEN [ret |-> Panic, reads |-> 1]
        ELSE [ret |-> Some(ByteSlice(t.merkle_tree, pos, limit)), reads |-> 1]

\* mutant: the range check lets position = pieces through
file_chunk_hash_at_off_by_one(t, position) ==
    LET n == pieces(t)
        pos == position * HASH_SIZE
        limit == pos + HASH_SIZE
    IN  IF position > n THEN [ret |-> None, reads |-> 0]
        ELSE IF position = n - 1 /\ t.boundary_hash.kind = "Some"
        THEN [ret |-> Some(t.boundary_hash.value), reads |-> 0]
        ELSE IF limit > ByteLen(t.merkle_tree) THEN [ret |-> Panic, reads |-> 1]
        ELSE [ret |-> Some(ByteSlice(t.merkle_tree, pos, limit)), reads |-> 1]

\* reads counts the slices taken from the tree buffer
file_chunk_hash_at(t, position) ==
    LET n == pieces(t)
        pos == position * HASH_SIZE
        limit == pos + HASH_SIZE
    IN  IF position >= n THEN [ret |-> None, reads |-> 0]
        ELSE IF position = n - 1 /\ t.boundary_hash.kind = "Some"
        THEN [ret |-> Some(t.boundary_hash.value), reads |-> 0]
        ELSE IF limit > ByteLen(t.merkle_tree) THEN [ret |-> Panic, reads |-> 1]
        ELSE [ret |-> Some(ByteSlice(t.merkle_tree, pos, limit)), reads |-> 1]

merkle_root(t) ==
    IF ByteLen(t.merkle_tree) < HASH_SIZE THEN Panic
    ELSE Ok(ByteSlice(t.merkle_tree, ByteLen(t.merkle_tree) - HASH_SIZE,
                      ByteLen(t.merkle_tree)))

\* mutant: the sibling is always taken on the right
RECURSIVE find_proof_right_sibling(_, _, _, _, _)
find_proof_right_sibling(t, position, first_index, base, proof) ==
    IF base = 1 THEN Ok(proof)
    ELSE LET sibling == position + 1
             parent == (position - first_index) \div 2 + first_index + base
         IN  IF (sibling + 1) * HASH_SIZE > ByteLen(t.merkle_tree) THEN Panic
             ELSE find_proof_right_sibling(t, parent, first_index + base, base \div 2,
                     Append(proof, ByteSlice(t.merkle_tree, sibling * HASH_SIZE,
                                             (sibling + 1) * HASH_SIZE)))

RECURSIVE find_proof(_, _, _, _, _)
find_proof(t, position, first_index, base, proof) ==
    IF base = 1 THEN Ok(proof)
    ELSE LET sibling == IF position % 2 = 0 THEN position + 1 ELSE position - 1
             parent == (position - first_index) \div 2 + first_index + base
         IN  IF (sibling + 1) * HASH_SIZE > ByteLen(t.merkle_tree) THEN Panic
             ELSE find_proof(t, parent, first_index + base, base \div 2,
                     Append(proof, ByteSlice(t.merkle_tree, sibling * HASH_SIZE,
                                             (sibling + 1) * HASH_SIZE)))

merkle_proof(t, piece) ==
    IF piece >= pieces(t) THEN [ret |-> None, reads |-> 0]
    ELSE LET found == find_proof(t, piece, 0, next_power_of_two(pieces(t)), <<>>)
         IN  IF found.kind = "panic" THEN [ret |-> Panic, reads |-> 1]
             ELSE [ret |-> Some(found.value), reads |-> Len(found.value)]

\* The verifier of the specification (section 4.3): fold the proof bottom to
\* top, the current hash on the left when the current index is even.
RECURSIVE verify_fold(_, _, _)
verify_fold(current, index, proof) ==
    IF proof = <<>> THEN current
    ELSE verify_fold(IF index % 2 = 0
                     THEN sha2_256_words(current \o Head(proof))
                     ELSE sha2_256_words(Head(proof) \o current),
                     index \div 2, Tail(proof))

verify(leaf_hash, position, proof, expected_root) ==
    verify_fold(leaf_hash, position, proof) = expected_root

\* -------------------------------------------------------- persisted record
\* usize::to_le_bytes: 4 bytes on a 32-bit target, 8 on a 64-bit one; file
\* sizes stay below 2^32, so the high word is zero
encode(usize, t) ==
    (IF usize = 8 THEN <<U32(t.file_size), U32(0)>> ELSE <<U32(t.file_size)>>)
        \o (IF t.boundary_hash.kind = "Some" THEN t.boundary_hash.value ELSE <<>>)
        \o t.merkle_tree

decode(input) ==
    IF ByteLen(input) < WORD_SIZE THEN Err
    ELSE
    LET file_size == input[1][2]
        rest1 == Tail(input)
        has_boundary == calculate_has_boundary(file_size)
    IN  IF has_boundary /\ ByteLen(rest1) < HASH_SIZE THEN Panic
        ELSE
        LET boundary_hash == IF has_boundary
                             THEN Some(SubSeq(rest1, 1, HASH_WORDS))
                             ELSE None
            rest2 == IF has_boundary
                     THEN SubSeq(rest1, HASH_WORDS + 1, Len(rest1))
                     ELSE rest1
        IN  IF ByteLen(rest2) < WORD_SIZE THEN Err
            ELSE LET bytes == Tail(rest2)
                 IN  IF ByteLen(bytes) > MAX_MERKLE_TREE_SIZE THEN Panic
                     ELSE Ok([file_size |-> file_size,
                              merkle_tree |-> bytes,
                              boundary_hash |-> boundary_hash])

\* =========================================================================
\* State
\* =========================================================================
VARIABLES
    usize_bytes,    \* width of usize on the build target, in bytes
    \* -- the tree engine on its own (as test_merkle_tree_should_work)
    file_bytes,     \* the file given to new
    built,          \* None, or Some(result of new(file_bytes))
    probe,          \* None, or Some(last query of the built tree)
    stored,         \* None, or Some(encoding of the built tree)
    loaded,         \* None, or Some(result of decoding stored)
    received,       \* None, or Some(a malformed record and its decoding)
    \* -- the pallet
    block_number,   \* frame_system block number
    Files,          \* storage map: merkle root -> [who, tree (encoded)]
    offchain_index, \* offchain database: block number -> IndexingData
    ipfs,           \* chunks handed to ipfs_upload, in order
    uploads,        \* number of upload_file calls made
    accepted,       \* history: the uploads that returned Ok, in order
    last            \* the last call and its outcome

engine_vars == <<file_bytes, built, probe, stored, loaded, received>>

pallet_vars == <<block_number, Files, offchain_index, ipfs, uploads, accepted,
                last>>

vars == <<usize_bytes, file_bytes, built, probe, stored, loaded, received,
          block_number, Files, offchain_index, ipfs, uploads, accepted, last>>

\* the files the model is exercised with: every chunk its own byte value,
\* and all zero bytes
Distinct(n) ==
    LET cs == calculate_chunk_size(n)
        count == (n + cs - 1) \div cs
    IN  [i \in 1..count |-> <<i, Min(cs, n - (i - 1) * cs)>>]

Zeros(n) == IF n = 0 THEN <<>> ELSE <<(<<0, n>>)>>

FileSizes ==
    {k * DEFAULT_CHUNK_SIZE + r : k \in 0..MaxChunks, r \in {0, 1}}
        \cup {32768, 32769, 65599}

FileFamily == {Distinct(n) : n \in FileSizes} \cup {Zeros(n) : n \in FileSizes}

Positions == 0..MaxPosition \cup {31, 32, 33, 2147483647}

NoCall == [call |-> "none"]

PalletIdle ==
    /\ block_number = 1
    /\ Files = <<>>
    /\ offchain_index = <<>>
    /\ ipfs = <<>>
    /\ uploads = 0
    /\ accepted = <<>>
    /\ last = NoCall

EngineIdle ==
    /\ file_bytes = <<>>
    /\ built = None
    /\ probe = None
    /\ stored = None
    /\ loaded = None
    /\ received = None

\* =========================================================================
\* The tree engine on its own: a file is built into a tree, the tree is
\* queried, encoded and decoded.
\* =========================================================================
Init ==
    /\ usize_bytes \in {4, 8}
    /\ file_bytes \in FileFamily
    /\ built = None
    /\ probe = None
    /\ stored = None
    /\ loaded = None
    /\ received = None
    /\ PalletIdle

\* let tree = FileMerkleTree::new(content)
Build ==
    /\ built.kind = "None"
    /\ built' = Some(new(file_bytes))
    /\ UNCHANGED <<usize_bytes, file_bytes, probe, stored, loaded, received,
                 pallet_vars>>

HasTree == built.kind = "Some" /\ built.value.kind = "Ok"

Tree == built.value.value

\* tree.file_chunk_hash_at(position) and tree.merkle_proof(position)
Query(position) ==
    /\ HasTree
    /\ probe' = Some([position |-> position,
                      chunk_hash |-> file_chunk_hash_at(Tree, position),
                      proof |-> merkle_proof(Tree, position)])
    /\ UNCHANGED <<usize_bytes, file_bytes, built, stored, loaded, received,
                 pallet_vars>>

\* tree.encode()
Store ==
    /\ HasTree
    /\ stored.kind = "None"
    /\ stored' = Some(encode(usize_bytes, Tree))
    /\ UNCHANGED <<usize_bytes, file_bytes, built, probe, loaded, received,
                 pallet_vars>>

\* FileMerkleTree::decode(&mut stored)
Load ==
    /\ stored.kind = "Some"
    /\ loaded.kind = "None"
    /\ loaded' = Some(decode(stored.value))
    /\ UNCHANGED <<usize_bytes, file_bytes, built, probe, stored, received,
                 pallet_vars>>

\* the stored record cut down to its first words, or followed by more
\* bytes than the tree buffer can hold
MalformedRecords(record) ==
    {SubSeq(record, 1, n) : n \in 0..Min(MaxCut, Len(record) - 1)}
        \cup {record \o [i \in 1..(MAX_MERKLE_TREE_SIZE \div WORD_SIZE) |-> U32(0)]}

\* FileMerkleTree::decode(&mut input) on a malformed record
DecodeMalformed(input) ==
    /\ stored.kind = "Some"
    /\ received' = Some([input |-> input, result |-> decode(input)])
    /\ UNCHANGED <<usize_bytes, file_bytes, built, probe, stored, loaded,
                   pallet_vars>>

Next ==
    \/ Build
    \/ \E position \in Positions : Query(position)
    \/ Store
    \/ Load
    \/ /\ stored.kind = "Some"
       /\ \E input \in MalformedRecords(stored.value) : DecodeMalformed(input)

Spec == Init /\ [][Next]_vars

\* =========================================================================
\* The pallet: upload_file extrinsics and the offchain worker, block by
\* block.
\* =========================================================================
Signers == {1, 2}

Origins == {[kind |-> "None"]} \cup {[kind |-> "Signed", who |-> a] : a \in Signers}

PalletFiles ==
    {Zeros(0), Zeros(1), Zeros(DEFAULT_CHUNK_SIZE),
     Distinct(DEFAULT_CHUNK_SIZE + 1), Distinct(65599)}

\* new(f) for the files the extrinsic is called with
BuiltOf == [f \in PalletFiles |-> new(f)]

InitPallet ==
    /\ usize_bytes \in {4, 8}
    /\ EngineIdle
    /\ PalletIdle

MapPut(map, key, value) ==
    [k \in DOMAIN map \cup {key} |-> IF k = key THEN value ELSE map[k]]

\* Pallet::upload_file.  A panic aborts the extrinsic and leaves no trace in
\* storage.
upload_file(origin, bytes) ==
    /\ uploads < MaxUploads
    /\ block_number <= MaxBlock
    /\ uploads' = uploads + 1
    /\ IF origin.kind # "Signed"
       THEN /\ last' = [call |-> "upload_file", origin |-> origin,
                        file_bytes |-> bytes, outcome |-> "BadOrigin",
                        built |-> "none", hashed |-> 0, wrote |-> FALSE]
            /\ UNCHANGED <<block_number, Files, offchain_index, ipfs, accepted>>
       ELSE LET file_merkle_tree == BuiltOf[bytes]
            IN  IF file_merkle_tree.kind = "panic"
                THEN /\ last' = [call |-> "upload_file", origin |-> origin,
                                 file_bytes |-> bytes, outcome |-> "panic",
                                 built |-> "panic",
                                 hashed |-> file_merkle_tree.hashed,
                                 wrote |-> FALSE]
                     /\ UNCHANGED <<block_number, Files, offchain_index, ipfs,
                                    accepted>>
                ELSE LET t == file_merkle_tree.value
                         root == merkle_root(t).value
                         data == [content |-> bytes, chunk_size |-> chunk_size(t)]
                     IN  /\ offchain_index' = MapPut(offchain_index, block_number, data)
                         /\ Files' = MapPut(Files, root,
                                [who |-> origin.who,
                                 tree |-> encode(usize_bytes, t)])
                         /\ last' = [call |-> "upload_file", origin |-> origin,
                                     file_bytes |-> bytes, outcome |-> "Ok",
                                     built |-> "Ok",
                                     hashed |-> file_merkle_tree.hashed,
                                     wrote |-> TRUE,
                                     event |-> [who |-> origin.who,
                                                merkle_root |-> root,
                                                pieces |-> pieces(t),
                                                size |-> t.file_size]]
                         /\ accepted' = Append(accepted,
                                [file_bytes |-> bytes, who |-> origin.who,
                                 block |-> block_number])
                         /\ UNCHANGED <<block_number, ipfs>>
    /\ UNCHANGED <<usize_bytes, engine_vars>>

\* the while loop of offchain_worker: the slices handed to ipfs_upload
RECURSIVE WorkerChunks(_, _, _)
WorkerChunks(content, cs, pos) ==
    LET file_length == BytesLen(content)
        limit == IF pos + cs > file_length THEN file_length ELSE pos + cs
    IN  IF pos < file_length
        THEN <<SubRuns(content, pos, limit - pos)>> \o WorkerChunks(content, cs, pos + cs)
        ELSE <<>>

\* Hooks::offchain_worker, run once the block is imported; the next block
\* starts
offchain_worker ==
    /\ block_number <= MaxBlock
    /\ LET handed == IF block_number \in DOMAIN offchain_index
                     THEN WorkerChunks(offchain_index[block_number].content,
                                       offchain_index[block_number].chunk_size, 0)
                     ELSE <<>>
       IN  /\ ipfs' = ipfs \o handed
           /\ last' = [call |-> "offchain_worker", block |-> block_number,
                       handed |-> handed]
    /\ block_number' = block_number + 1
    /\ UNCHANGED <<usize_bytes, engine_vars, Files, offchain_index, uploads,
                   accepted>>

\* bs58::encode: an injective function of the bytes, with the base-58
\* alphabet and nothing in front
bs58_encode(data) == [multibase |-> "", encoding |-> "base58", data |-> data]

\* mutant: the length byte of the multihash prefix is left out
ipfs_get_hash_from_sha256_no_length(hash) ==
    bs58_encode([prefix |-> <<18>>, digest |-> hash])

\* ipfs::ipfs_get_hash_from_sha256: the bytes 0x12 0x20, then the hash
ipfs_get_hash_from_sha256(hash) ==
    bs58_encode([prefix |-> <<18, 32>>, digest |-> hash])

RECURSIVE SetToSeq(_)
SetToSeq(set) ==
    IF set = {} THEN <<>>
    ELSE LET x == CHOOSE y \in set : TRUE
         IN  <<x>> \o SetToSeq(set \ {x})

\* Files::get(key): the stored value, decoded
FilesGet(key) == decode(Files[key].tree)

\* Pallet::get_files: one (merkle root, pieces) pair per entry of Files, in
\* the order of the storage iterator
get_files ==
    /\ last' =
         IF \E k \in DOMAIN Files :
               \/ FilesGet(k).kind # "Ok"
               \/ merkle_root(FilesGet(k).value).kind = "panic"
         THEN [call |-> "get_files", outcome |-> "panic"]
         ELSE [call |-> "get_files", outcome |-> "Ok",
               files |-> [i \in 1..Cardinality(DOMAIN Files) |->
                            LET tree == FilesGet(SetToSeq(DOMAIN Files)[i]).value
                            IN  <<merkle_root(tree).value, pieces(tree)>>]]
    /\ UNCHANGED <<usize_bytes, engine_vars, block_number, Files, offchain_index,
                   ipfs, uploads, accepted>>

\* the value of Pallet::get_proof
get_proof_value(root, position) ==
    IF ByteLen(root) < HASH_SIZE \/ root \notin DOMAIN Files THEN None
    ELSE IF FilesGet(root).kind = "panic" THEN Panic
    ELSE IF FilesGet(root).kind = "Err" THEN None
    ELSE LET merkle_tree == FilesGet(root).value
             proof == merkle_proof(merkle_tree, position)
             chunk_hash == file_chunk_hash_at(merkle_tree, position)
         IN  IF proof.ret.kind = "None" THEN None
             ELSE IF proof.ret.kind = "panic" \/ chunk_hash.ret.kind = "panic"
             THEN Panic
             ELSE Some([chunk_ipfs_hash |->
                            ipfs_get_hash_from_sha256(chunk_hash.ret.value),
                        proof |-> proof.ret.value])

\* Pallet::get_proof
get_proof(root, position) ==
    /\ last' = [call |-> "get_proof", merkle_root |-> root,
                position |-> position,
                result |-> get_proof_value(root, position)]
    /\ UNCHANGED <<usize_bytes, engine_vars, block_number, Files, offchain_index,
                   ipfs, uploads, accepted>>

\* the positions the runtime API is asked for
PalletPositions == {0, 1, 2}

NextPallet ==
    \/ \E origin \in Origins, bytes \in PalletFiles : upload_file(origin, bytes)
    \/ offchain_worker
    \/ get_files
    \/ \E root \in DOMAIN Files \cup {<<>>}, position \in PalletPositions :
          get_proof(root, position)

SpecPallet == InitPallet /\ [][NextPallet]_vars

\* =========================================================================
\* Properties
\* =========================================================================
RECURSIVE Pow2(_)
Pow2(k) == IF k = 0 THEN 1 ELSE 2 * Pow2(k - 1)

RECURSIVE Log2(_)
Log2(n) == IF n <= 1 THEN 0 ELSE 1 + Log2(n \div 2)

FileLen == BytesLen(file_bytes)

FilePieces == calculate_pieces(FileLen)

FileLeaves == next_power_of_two(FilePieces)

\* the raw bytes of the chunk at a position of the file
FileChunk(position) ==
    LET cs == calculate_chunk_size(FileLen)
    IN  SubRuns(file_bytes, position * cs, Min(cs, FileLen - position * cs))

\* index in the buffer of the first node of a level (the leaves are level 0)
LevelStart(k) ==
    IF k = 0 THEN 0 ELSE 2 * FileLeaves - FileLeaves \div Pow2(k - 1)

\* the index-th 32-byte node of the built tree
Node(index) ==
    SubSeq(Tree.merkle_tree, index * HASH_WORDS + 1, (index + 1) * HASH_WORDS)

Xor1(x) == IF x % 2 = 0 THEN x + 1 ELSE x - 1

Probed == HasTree /\ probe.kind = "Some"

ProbedInside == Probed /\ probe.value.position < FilePieces

\* C1: for a tree built from a non-empty file and a position < pieces, the
\* chunk hash and the proof returned for the position verify against the
\* root, the last position of a file with a short final chunk included.
C1_RoundTripProof ==
    (ProbedInside /\ FileLen > 0)
        => /\ probe.value.chunk_hash.ret.kind = "Some"
           /\ probe.value.proof.ret.kind = "Some"
           /\ verify(probe.value.chunk_hash.ret.value, probe.value.position,
                     probe.value.proof.ret.value, merkle_root(Tree).value)

\* C2: decoding the encoding of a built tree succeeds and gives the tree
\* back, and the encoding is the 4-byte file size, the boundary hash when
\* there is one, then the tree buffer.
C2_PersistedRoundTrip ==
    /\ (HasTree /\ stored.kind = "Some")
            => stored.value =
                 <<U32(Tree.file_size)>>
                    \o (IF calculate_has_boundary(Tree.file_size)
                        THEN Tree.boundary_hash.value ELSE <<>>)
                    \o Tree.merkle_tree
    /\ (HasTree /\ loaded.kind = "Some")
            => /\ loaded.value.kind = "Ok"
               /\ loaded.value.value.file_size = Tree.file_size
               /\ loaded.value.value.boundary_hash = Tree.boundary_hash
               /\ loaded.value.value.merkle_tree = Tree.merkle_tree

\* C3: a built tree holds 2*leaves-1 nodes: the padded-chunk leaf hashes in
\* file order, the zero filler up to a power of two, then level by level the
\* hash of each adjacent pair of the level below; the root is the last node.
C3_TreeLayout ==
    HasTree =>
        /\ ByteLen(Tree.merkle_tree) = HASH_SIZE * (2 * FileLeaves - 1)
        /\ \A i \in 0..(FilePieces - 1) :
              Node(i) = sha2_256(ZeroPad(FileChunk(i), calculate_chunk_size(FileLen)))
        /\ \A i \in FilePieces..(FileLeaves - 1) : Node(i) = CHUNK_FILLER
        /\ \A k \in 1..Log2(FileLeaves) :
              \A j \in 0..(FileLeaves \div Pow2(k) - 1) :
                 Node(LevelStart(k) + j) =
                    sha2_256_words(Node(LevelStart(k - 1) + 2 * j)
                                   \o Node(LevelStart(k - 1) + 2 * j + 1))
        /\ merkle_root(Tree) = Ok(Node(2 * FileLeaves - 2))

\* C3 witness: a tree of three pieces, the last one short, and one filler
C3_Witness ==
    /\ HasTree
    /\ FilePieces = 3
    /\ FileLeaves = 4
    /\ Tree.boundary_hash.kind = "Some"
    /\ Len(file_bytes) = 3

\* C4: for a position < pieces the proof has log2(leaves) entries, the k-th
\* being the node of level k at in-level index ((position div 2^k) xor 1).
C4_ProofShape ==
    ProbedInside =>
        /\ probe.value.proof.ret.kind = "Some"
        /\ Len(probe.value.proof.ret.value) = Log2(FileLeaves)
        /\ \A k \in 0..(Log2(FileLeaves) - 1) :
              probe.value.proof.ret.value[k + 1] =
                 Node(LevelStart(k) + Xor1(probe.value.position \div Pow2(k)))

\* C4 witness: the proof of the last of 32 distinct pieces, five levels
C4_Witness ==
    /\ ProbedInside
    /\ FilePieces = 32
    /\ Len(file_bytes) = 32
    /\ probe.value.position = 31
    /\ Len(probe.value.proof.ret.value) = 5

\* C5: for a non-empty file and a position < pieces, file_chunk_hash_at is
\* the hash of the raw chunk: the stored leaf for a full chunk, the boundary
\* hash for a short final chunk.
C5_ChunkHash ==
    (ProbedInside /\ FileLen > 0) =>
        /\ probe.value.chunk_hash.ret = Some(sha2_256(FileChunk(probe.value.position)))
        /\ IF BytesLen(FileChunk(probe.value.position)) = calculate_chunk_size(FileLen)
           THEN probe.value.chunk_hash.ret.value = Node(probe.value.position)
           ELSE probe.value.chunk_hash.ret.value = Tree.boundary_hash.value

\* C5 witness: the short last chunk of a three-piece file is queried
C5_Witness ==
    /\ ProbedInside
    /\ FilePieces = 3
    /\ probe.value.position = 2
    /\ calculate_has_boundary(FileLen)
    /\ probe.value.chunk_hash.ret.kind = "Some"

\* C6: an empty file builds no tree, and uploading it stores nothing.
C6_EmptyFileFails ==
    (last.call = "upload_file" /\ last.origin.kind = "Signed"
        /\ BytesLen(last.file_bytes) = 0)
        => /\ last.built # "Ok"
           /\ last.outcome # "Ok"
           /\ ~last.wrote
           /\ Files = <<>>

\* C7: a file with more pieces than the leaf budget is refused with an
\* error result, not a panic, before any hashing and before any write.
C7_OverBudgetFails ==
    (last.call = "upload_file" /\ last.origin.kind = "Signed"
        /\ calculate_pieces(BytesLen(last.file_bytes)) > MAX_MERKLE_TREE_NODES)
        => /\ last.outcome = "Err"
           /\ last.hashed = 0
           /\ ~last.wrote

\* C8: new returns a tree for every file of 1..64 pieces.
C8_FitsUpTo64Pieces ==
    (built.kind = "Some" /\ FilePieces >= 1 /\ FilePieces <= MAX_MERKLE_TREE_NODES)
        => built.value.kind = "Ok"

\* C9: the piece count of a non-empty file is at most 64.
C9_PiecesAtMost64 ==
    (built.kind = "Some" /\ FileLen >= 1)
        => calculate_pieces(FileLen) <= MAX_MERKLE_TREE_NODES

\* C10: for any built tree, the one of the empty file included, a position
\* >= pieces gets None from both queries, without a panic and without a
\* read of the tree buffer.
C10_OutOfRange ==
    (Probed /\ probe.value.position >= pieces(Tree))
        => /\ probe.value.chunk_hash = [ret |-> None, reads |-> 0]
           /\ probe.value.proof = [ret |-> None, reads |-> 0]

\* C10 witness: position 0 of the tree of the empty file
C10_Witness ==
    /\ Probed
    /\ pieces(Tree) = 0
    /\ probe.value.position = 0
    /\ probe.value.chunk_hash.ret.kind = "None"
\* C11: decoding a truncated record, one announcing a boundary hash with
\* fewer than 32 bytes left included, or one with more bytes than the tree
\* buffer holds, returns a decode error and never panics.
C11_MalformedDecodeErrs ==
    received.kind = "Some" => received.value.result.kind = "Err"
\* ------------------------------------------------------------ the pallet
AcceptedFiles == {accepted[i].file_bytes : i \in DOMAIN accepted}

\* the merkle root and the piece count of an accepted file
RootOf(f) == merkle_root(BuiltOf[f].value).value

PiecesOf(f) == calculate_pieces(BytesLen(f))

\* C12: get_files returns exactly one (merkle_root, pieces) pair per
\* distinct file uploaded so far, none before any upload; as the uploaded
\* files only grow in number, a pair once listed stays listed unchanged.
C12_GetFilesListsEveryFile ==
    last.call = "get_files" =>
        /\ last.outcome = "Ok"
        /\ Len(last.files) = Cardinality(AcceptedFiles)
        /\ \A f \in AcceptedFiles :
              Cardinality({i \in DOMAIN last.files :
                              last.files[i] = <<RootOf(f), PiecesOf(f)>>}) = 1

\* C13: every entry of Files sits under the merkle root of its own tree and
\* records the signer of the most recent successful upload of its file; an
\* unsigned origin stores nothing.
C13_EntriesKeyedByRoot ==
    /\ \A k \in DOMAIN Files :
          /\ FilesGet(k).kind = "Ok"
          /\ merkle_root(FilesGet(k).value).kind = "Ok"
          /\ merkle_root(FilesGet(k).value).value = k
          /\ \E i \in DOMAIN accepted :
                /\ encode(usize_bytes, BuiltOf[accepted[i].file_bytes].value)
                      = Files[k].tree
                /\ \A j \in DOMAIN accepted :
                      (j > i) => accepted[j].file_bytes # accepted[i].file_bytes
                /\ Files[k].who = accepted[i].who
    /\ (last.call = "upload_file" /\ last.origin.kind # "Signed") => ~last.wrote

\* the address get_proof returned, and the hash it stands for
ProofReturned == last.call = "get_proof" /\ last.result.kind = "Some"

ReturnedAddress == last.result.value.chunk_ipfs_hash

AddressedHash ==
    file_chunk_hash_at(FilesGet(last.merkle_root).value, last.position).ret.value

\* C14 as claimed: the address get_proof returns is a 4-byte prefix and the
\* hash, in base 32, behind a one-character multibase tag.
C14_CanonicalAddress ==
    ProofReturned =>
        /\ Len(ReturnedAddress.data.prefix) = 4
        /\ ReturnedAddress.data.digest = AddressedHash
        /\ ReturnedAddress.encoding = "base32"
        /\ ReturnedAddress.multibase # ""

\* C14 as amended: the address get_proof returns is the 2-byte prefix
\* 0x12 0x20 and the hash file_chunk_hash_at gives for the position, in
\* base 58, with no multibase tag.
C14_Base58Address ==
    ProofReturned =>
        /\ ReturnedAddress.data.prefix = <<18, 32>>
        /\ ReturnedAddress.data.digest = AddressedHash
        /\ ReturnedAddress.encoding = "base58"
        /\ ReturnedAddress.multibase = ""

\* C14 witness: get_proof answered for the second piece of a stored file
C14_Witness ==
    /\ ProofReturned
    /\ last.position = 1
    /\ Len(last.result.value.proof) = 1

\* sub occurs in seq as a run of consecutive elements
Contiguous(sub, seq) ==
    \E o \in 0..(Len(seq) - Len(sub)) :
        \A j \in 1..Len(sub) : seq[o + j] = sub[j]

\* C15: the offchain worker of a block hands the store every chunk, in
\* position order and unpadded, of every file accepted in that block.
C15_WorkerHandsEveryChunk ==
    last.call = "offchain_worker" =>
        \A i \in DOMAIN accepted :
            accepted[i].block = last.block =>
                Contiguous(Chunks(accepted[i].file_bytes,
                                  calculate_chunk_size(BytesLen(accepted[i].file_bytes))),
                           last.handed)
====
